---- MODULE Spec2Model ----
(***************************************************************************)
(* Model of the quiz-session provider (src/src/hooks/useQuizTimer.ts,      *)
(* lines 80-607): createQuizSession, loadUserSessions and the asynchronous *)
(* updateQuizSession handler with its gamification pipeline.  Every await  *)
(* of the handler is one step: the step applies the remote operation       *)
(* (which may fail) and runs the synchronous code up to the next await.    *)
(*                                                                         *)
(* Three specifications share the actions.  Spec: the provider from its    *)
(* construction, handlers one after another.  SpecPass: one completing     *)
(* call on the catalogues, histories and stored aggregates earlier events  *)
(* can have left.  SpecConcurrent: completing calls of two sessions that   *)
(* overlap, steps interleaved, followed by one call that runs alone.       *)
(* max_points and estimated_minutes of a session are set when it is        *)
(* created and no update carries them.  The unique pair (user_id,          *)
(* achievement_id) of user_achievements is taken from the specification.   *)
(*                                                                         *)
(* Scope of Spec: one user, signed in throughout; the handlers run one     *)
(* after another (a new call, a reload or a change of day happens only     *)
(* while no updateQuizSession is in flight).  Sessions are created active  *)
(* with an empty results array; an update names a session of the local     *)
(* list, so foundSession (line 225) is always found.  The status paused is *)
(* left out of the inputs: the handler examines only status === completed  *)
(* and treats paused exactly as active.  A completing update carries the   *)
(* completed_at its caller read from the clock: today, or the day before   *)
(* when the call is made just after midnight.                              *)
(***************************************************************************)
EXTENDS Integers, Sequences, FiniteSets, TLC

\* ---------------------------------------------------------------- bounds
MaxSessions == 2
MaxResults == 1
MaxPoints == 1
MaxTotalIn == 0
MaxDay == 2
MaxUpdates == 2

\* ------------------------------------------------------------- constants
STUDY_SCHEDULE_BONUS_XP == 10
\* value of the imported constant is not part of the sources
XP_PER_LEVEL == 10

\* absent values (undefined / null) of each type
NoInt == -1
NoStatus == "none"
NoResults == <<-1>>
NoAssignment == "none"

Me == "u1"
Days == 1..MaxDay
CallIds == {1}
Idx(n) == 1..n

ResultSeqs == UNION {[Idx(n) -> 0..MaxPoints] : n \in 0..MaxResults}

\* ------------------------------------------------------------- variables
VARIABLES
  quiz_sessions,      \* table quiz_sessions: set of rows
  sessions,           \* React state of the provider: local copies of rows
  study_assignments,  \* table study_assignments: the row of assignment "a1"
  achievements,       \* table achievements: the catalogue, in the order it is read
  quiz_question_logs, \* table quiz_question_logs: number of rows of the user
  user_stats,         \* table user_stats restricted to the user: <<>> or <<row>>
  user_achievements,  \* table user_achievements of the user: sequence of ids
  today,              \* calendar day returned by new Date()
  calls,              \* the invocations of updateQuizSession
  awarded,            \* history: sessions whose completion was given the bonus
  lastRun,            \* history: the last pipeline run that upserted user_stats
  nUpdates,           \* history: number of updateQuizSession calls made so far
  timer,              \* React state of useQuizTimer and what its callbacks received
  leaderboard,        \* React state of useTeamLeaderboardData and its requests
  history             \* React state of useQuizHistoryData and its requests

hookVars == <<timer, leaderboard, history>>
providerVars ==
  <<quiz_sessions, sessions, study_assignments, achievements, quiz_question_logs, user_stats,
    user_achievements, today, calls, awarded, lastRun, nUpdates>>
vars == <<providerVars, hookVars>>

\* absent values of the hooks
NoTeam == "none"
NoError == "null"

\* useQuizTimer lines 10-13: the state of a hook mounted with initialTime;
\* onTimeUpdate holds the argument of the last call of the callback,
\* onTimeExpired the number of its calls since the last resetTimer,
\* startedWith the timeLeft at the first startTimer that took effect since
\* the mount or the last resetTimer, and ticks the number of ticks since
\* then (since the mount or the resetTimer while startedWith is absent)
TimerAt(initialTime) ==
  [timeLeft |-> initialTime, timerActive |-> FALSE, timerStarted |-> FALSE,
   hasTimeExpired |-> FALSE, onTimeUpdate |-> <<>>, onTimeExpired |-> 0,
   startedWith |-> NoInt, ticks |-> 0]

\* useTeamLeaderboardData lines 26-28: the state of a mounted hook; requests
\* are the rpc calls in flight, dataFor the fetch that set data last, with
\* what it fetched, and latest the outcome of the fetch issued last, once
\* it has ended
LeaderboardAtMount ==
  [data |-> {}, loading |-> TRUE, error |-> NoError,
   requests |-> {}, dataFor |-> <<>>, latest |-> <<>>, nFetches |-> 0]

\* useQuizHistoryData (part_000) lines 17-19, with the same history fields
HistoryAtMount ==
  [data |-> {}, loading |-> TRUE, error |-> NoError,
   requests |-> {}, dataFor |-> <<>>, latest |-> <<>>, nFetches |-> 0]

\* the hooks as the provider's specifications leave them
HooksAtMount ==
  /\ timer = TimerAt(0)
  /\ leaderboard = LeaderboardAtMount
  /\ history = HistoryAtMount

\* the rows of the achievements table (read-only to the handler)
SeedAchievements ==
  << [id |-> 1, criteria_type |-> "total_quizzes_completed", criteria_value |-> 1],
     [id |-> 2, criteria_type |-> "total_points_earned", criteria_value |-> 2],
     [id |-> 3, criteria_type |-> "accuracy_chapter", criteria_value |-> 1] >>

\* a completed session of another user, present in the table from the start
OtherUserRow ==
  [id |-> 0, user_id |-> "u2", status |-> "completed", results |-> <<1>>,
   total_points |-> 1, assignment_id |-> NoAssignment, completed_at |-> 1,
   bonus_xp |-> NoInt, max_points |-> 1, estimated_minutes |-> 1]

\* --------------------------------------------------------------- helpers
RECURSIVE SumSeq(_)
SumSeq(s) == IF s = <<>> THEN 0 ELSE Head(s) + SumSeq(Tail(s))

RECURSIVE SumTotals(_)
SumTotals(rows) ==
  IF rows = {} THEN 0
  ELSE LET r == CHOOSE x \in rows : TRUE
       IN  (IF r.total_points = NoInt THEN 0 ELSE r.total_points)
           + SumTotals(rows \ {r})

\* calculateTotalPointsFromResults: sum of Number(pointsEarned) || 0
calculateTotalPointsFromResults(results) == SumSeq(results)

\* variant: the recomputation is skipped when the caller supplied a total
RecalculateTotalPointsUnlessSupplied(updates) ==
  IF updates.results # NoResults /\ updates.total_points = NoInt
  THEN [updates EXCEPT !.total_points = calculateTotalPointsFromResults(updates.results)]
  ELSE updates

\* lines 197-200: a results array in the updates overrides updates.total_points
RecalculateTotalPoints(updates) ==
  IF updates.results # NoResults
  THEN [updates EXCEPT !.total_points = calculateTotalPointsFromResults(updates.results)]
  ELSE updates

\* { ...row, ...updates }: a field present in the updates replaces the row's
Merge(row, updates) ==
  [row EXCEPT
     !.status = IF updates.status # NoStatus THEN updates.status ELSE @,
     !.results = IF updates.results # NoResults THEN updates.results ELSE @,
     !.total_points = IF updates.total_points # NoInt THEN updates.total_points ELSE @,
     !.completed_at = IF updates.completed_at # NoInt THEN updates.completed_at ELSE @,
     !.bonus_xp = IF updates.bonus_xp # NoInt THEN updates.bonus_xp ELSE @]

\* update(...).eq('id', sessionId) and the local map over sessions
ApplyUpdate(rows, sessionId, updates) ==
  {IF r.id = sessionId THEN Merge(r, updates) ELSE r : r \in rows}

\* select ... .eq('user_id', user.id).eq('status', 'completed')
CompletedSessionsOf(rows, user) ==
  {r \in rows : r.user_id = user /\ r.status = "completed"}

isSameDay(d1, d2) == d1 = d2

calculateLevel(xp) == (xp \div XP_PER_LEVEL) + 1

\* longest run of consecutive distinct calendar days among the completions
RECURSIVE RunEndingAt(_, _)
RunEndingAt(days, d) == IF d \in days THEN 1 + RunEndingAt(days, d - 1) ELSE 0

MaxOf(S) == IF S = {} THEN 0 ELSE CHOOSE m \in S : \A x \in S : x <= m

calculateLongestStudyStreak(rows) ==
  LET days == {r.completed_at : r \in {x \in rows : x.completed_at # NoInt}}
  IN  MaxOf({RunEndingAt(days, d) : d \in days})

\* the distinct calendar days of the completions that carry a date
ActiveDays(rows) == {r.completed_at : r \in {x \in rows : x.completed_at # NoInt}}

\* variant: the walk starts from today only, without the day of grace
calculateStudyStreakNoGrace(rows, now) == RunEndingAt(ActiveDays(rows), now)

\* variant: every completion of a day of the run counts, not every day
calculateStudyStreakPerSession(rows, now) ==
  LET days == ActiveDays(rows)
      last == IF now \in days THEN now ELSE now - 1
      n == RunEndingAt(days, last)
  IN  Cardinality({r \in rows : r.completed_at \in (last - n + 1)..last})

\* current streak: the walk back from today, or from yesterday when today
\* is not active; 0 when neither is
calculateStudyStreak(rows, now) ==
  LET days == ActiveDays(rows)
  IN  IF now \in days THEN RunEndingAt(days, now)
      ELSE IF now - 1 \in days THEN RunEndingAt(days, now - 1)
      ELSE 0

IdleCall ==
  [pc |-> "idle", sessionId |-> NoInt,
   updates |-> [status |-> NoStatus, results |-> NoResults, total_points |-> NoInt,
                completed_at |-> NoInt, bonus_xp |-> NoInt],
   closure |-> {}, primaryError |-> FALSE, priorStatus |-> NoStatus,
   assignment |-> NoInt, bonusXp |-> 0, rerunBonus |-> NoInt,
   currentUserStats |-> <<>>, allCompletedSessions |-> {},
   newTotalXp |-> 0, newCurrentLevel |-> 0, currentStudyStreak |-> 0,
   newLongestStreak |-> 0,
   unlocked |-> {}, i |-> 0,
   ops |-> {}, notified |-> {}, inserted |-> {},
   upserted |-> FALSE, gamFailed |-> FALSE,
   evaluated |-> {}, criteriaMet |-> {}, countError |-> {}, attempted |-> {},
   rejected |-> {}]

Init ==
  /\ quiz_sessions = {OtherUserRow}
  /\ sessions = {}
  /\ study_assignments = [date |-> 1]
  /\ achievements = SeedAchievements
  /\ quiz_question_logs = 0
  /\ user_stats = <<>>
  /\ user_achievements = <<>>
  /\ today = 1
  /\ calls = [c \in CallIds |-> IdleCall]
  /\ awarded = {}
  /\ lastRun = <<>>
  /\ HooksAtMount
  /\ nUpdates = 0

AllIdle == \A c \in DOMAIN calls : calls[c].pc = "idle"

\* new Date() moves to the next calendar day
Midnight ==
  /\ AllIdle
  /\ today < MaxDay
  /\ today' = today + 1
  /\ UNCHANGED <<quiz_sessions, sessions, study_assignments, achievements, quiz_question_logs, hookVars,
                 user_stats,
                 user_achievements, calls, awarded, lastRun, nUpdates>>

\* ---------------------------------------------------- createQuizSession
UserIds == {r.id : r \in {x \in quiz_sessions : x.user_id = Me}}

\* insert([sessionData]).select().single(), then setSessions(prev => [data, ...prev]);
\* an insert error is rethrown and nothing changes
CreateQuizSession(assignment) ==
  /\ AllIdle
  /\ Cardinality(UserIds) < MaxSessions
  /\ \/ LET data == [id |-> Cardinality(quiz_sessions), user_id |-> Me,
                     status |-> "active", results |-> <<>>, total_points |-> 0,
                     assignment_id |-> assignment, completed_at |-> NoInt,
                     bonus_xp |-> NoInt, max_points |-> MaxResults * MaxPoints,
                     estimated_minutes |-> 1]
        IN  /\ quiz_sessions' = quiz_sessions \cup {data}
            /\ sessions' = sessions \cup {data}
            /\ lastRun' = <<>>
     \/ UNCHANGED <<quiz_sessions, sessions, lastRun>>
  /\ UNCHANGED <<study_assignments, achievements, quiz_question_logs, hookVars,
                 user_stats, user_achievements, today,
                 calls, awarded, nUpdates>>

\* ----------------------------------------------------- loadUserSessions
\* select('*').eq('user_id', user.id); on error the list is left as it is
LoadUserSessions ==
  /\ AllIdle
  /\ \/ sessions' = {r \in quiz_sessions : r.user_id = Me}
     \/ sessions' = sessions
  /\ UNCHANGED <<quiz_sessions, study_assignments, achievements, quiz_question_logs, hookVars, user_stats,
                 user_achievements, today, calls, awarded, lastRun, nUpdates>>

\* ----------------------------------------------------- updateQuizSession
SetCall(c, cs) == calls' = [calls EXCEPT ![c] = cs]

Op(cs, name) == [cs EXCEPT !.ops = @ \cup {name}]

FoundSession(cs) == CHOOSE s \in cs.closure : s.id = cs.sessionId

\* lines 540-545: setSessions(prev => prev.map(...)) and the normal return
LocalUpdate(c, cs) ==
  /\ sessions' = ApplyUpdate(sessions, cs.sessionId, cs.updates)
  /\ SetCall(c, [cs EXCEPT !.pc = "resolved"])

\* variant: the catch rethrows
GamificationCatchRethrow(c, cs) ==
  /\ SetCall(c, [cs EXCEPT !.pc = "rejected", !.gamFailed = TRUE])
  /\ UNCHANGED <<sessions, user_stats, user_achievements>>

\* variant: the catch undoes the writes of the pipeline
GamificationCatchRollback(c, cs) ==
  /\ LocalUpdate(c, [cs EXCEPT !.gamFailed = TRUE])
  /\ user_stats' = cs.currentUserStats
  /\ user_achievements' = SelectSeq(user_achievements, LAMBDA a : a \notin cs.inserted)

\* lines 532-535: the catch of the gamification try logs and does not rethrow
GamificationCatch(c, cs) ==
  /\ LocalUpdate(c, [cs EXCEPT !.gamFailed = TRUE])
  /\ UNCHANGED <<user_stats, user_achievements>>

\* lines 190-213: the call starts; `sessions` is the list the callback closed over
UpdateInputs ==
  [status : {NoStatus, "active", "completed"},
   results : ResultSeqs \cup {NoResults},
   total_points : {NoInt} \cup 0..MaxTotalIn,
   completed_at : {NoInt} \cup {d \in Days : d \in {today - 1, today}},
   bonus_xp : {NoInt}]

StartUpdate(c, sessionId, updates) ==
  /\ calls[c].pc = "idle"
  /\ nUpdates' = nUpdates + 1
  /\ sessionId \in {s.id : s \in sessions}
  /\ updates.completed_at # NoInt <=> updates.status = "completed"
  /\ SetCall(c, [IdleCall EXCEPT !.pc = "update", !.sessionId = sessionId,
                                 !.updates = RecalculateTotalPoints(updates),
                                 !.closure = sessions])
  /\ UNCHANGED <<quiz_sessions, sessions, study_assignments, achievements, quiz_question_logs, hookVars,
                 user_stats,
                 user_achievements, today, awarded, lastRun>>

\* a call made while no other call of the provider is in flight
UpdateQuizSession(c, sessionId, updates) ==
  /\ AllIdle
  /\ nUpdates < MaxUpdates
  /\ StartUpdate(c, sessionId, updates)

\* variant: a session without an assignment ends the event after the write
AfterPrimaryWriteSkipsUnassigned(c, cs) ==
  IF cs.updates.status = "completed" /\ FoundSession(cs).assignment_id # NoAssignment
  THEN /\ SetCall(c, [cs EXCEPT !.pc = "markAssignment"])
       /\ sessions' = sessions
  ELSE LocalUpdate(c, cs)

\* lines 221-245 after a successful write
AfterPrimaryWrite(c, cs) ==
  IF cs.updates.status = "completed"
  THEN /\ SetCall(c, [cs EXCEPT !.pc =
                 IF FoundSession(cs).assignment_id # NoAssignment
                 THEN "markAssignment" ELSE "statsRead"])
       /\ sessions' = sessions
  ELSE LocalUpdate(c, cs)

\* variant: the error of the write is not examined
PrimaryWriteFailedIgnored(c, cs) ==
  /\ AfterPrimaryWrite(c, [cs EXCEPT !.primaryError = TRUE])
  /\ quiz_sessions' = quiz_sessions

\* line 219: if (error) throw error; the outer catch (546-549) rethrows
PrimaryWriteFailed(c, cs) ==
  /\ SetCall(c, [cs EXCEPT !.pc = "rejected", !.primaryError = TRUE])
  /\ UNCHANGED <<quiz_sessions, sessions>>

\* the rows select('total_points') of the completed sessions returns
History(rows) ==
  {[id |-> r.id, total_points |-> r.total_points] : r \in CompletedSessionsOf(rows, Me)}

\* lines 214-219: update(updates).eq('id', sessionId)
PrimaryWrite(c) ==
  LET cs == Op(calls[c], "quiz_sessions.update") IN
  /\ calls[c].pc = "update"
  /\ \/ /\ quiz_sessions' = ApplyUpdate(quiz_sessions, cs.sessionId, cs.updates)
        /\ AfterPrimaryWrite(c,
             [cs EXCEPT !.priorStatus =
                (CHOOSE r \in quiz_sessions : r.id = cs.sessionId).status])
        /\ lastRun' = IF History(quiz_sessions') = History(quiz_sessions)
                      THEN lastRun ELSE <<>>
     \/ /\ PrimaryWriteFailed(c, cs)
        /\ lastRun' = lastRun
  /\ UNCHANGED <<study_assignments, achievements, quiz_question_logs, hookVars,
                 user_stats, user_achievements, today,
                 awarded, nUpdates>>

\* lines 226-235: checkAndMarkAssignmentCompleted; its failure is caught
MarkAssignment(c) ==
  LET cs == Op(calls[c], "assignment.mark") IN
  /\ calls[c].pc = "markAssignment"
  /\ SetCall(c, [cs EXCEPT !.pc = "assignmentRead"])
  /\ UNCHANGED <<quiz_sessions, sessions, study_assignments, achievements, quiz_question_logs, hookVars,
                 user_stats, user_achievements,
                 today, awarded, lastRun, nUpdates>>

\* line 296: new Date(foundSession.completed_at || new Date())
CompletedDate(cs) ==
  IF FoundSession(cs).completed_at # NoInt
  THEN FoundSession(cs).completed_at ELSE today

\* lines 294-317: the bonus decision once the assignment row is there
BonusDecision(cs, assignment) ==
  IF isSameDay(assignment.date, CompletedDate(cs))
  THEN [cs EXCEPT !.assignment = assignment.date,
                  !.bonusXp = STUDY_SCHEDULE_BONUS_XP,
                  !.notified = @ \cup {0}]
  ELSE [cs EXCEPT !.assignment = assignment.date]

\* lines 283-321: select('date') of the assignment; an error leaves bonusXp 0
AssignmentRead(c) ==
  LET cs == Op(calls[c], "study_assignments.select") IN
  /\ calls[c].pc = "assignmentRead"
  /\ \/ SetCall(c, [BonusDecision(cs, study_assignments) EXCEPT !.pc = "statsRead"])
     \/ SetCall(c, [cs EXCEPT !.pc = "statsRead"])
  /\ UNCHANGED <<quiz_sessions, sessions, study_assignments, achievements, quiz_question_logs, hookVars,
                 user_stats,
                 user_achievements, today, awarded, lastRun, nUpdates>>

\* lines 325-331: select('*') from user_stats .maybeSingle()
StatsRead(c) ==
  LET cs == Op(calls[c], "user_stats.select") IN
  /\ calls[c].pc = "statsRead"
  /\ \/ /\ SetCall(c, [cs EXCEPT !.pc = "xpRead", !.currentUserStats = user_stats])
        /\ UNCHANGED <<sessions, user_stats, user_achievements>>
     \/ GamificationCatch(c, cs)
  /\ UNCHANGED <<quiz_sessions, study_assignments, achievements, quiz_question_logs, hookVars,
                 today, awarded, lastRun, nUpdates>>

\* variant: the stored total is incremented by the points of this session
NewTotalXpIncremental(cs, allCompletedSessions) ==
  (IF cs.currentUserStats = <<>> THEN 0 ELSE cs.currentUserStats[1].total_xp)
  + SumTotals({r \in allCompletedSessions : r.id = cs.sessionId}) + cs.bonusXp

\* lines 348-353
NewTotalXp(cs, allCompletedSessions) ==
  SumTotals(allCompletedSessions) + cs.bonusXp

\* variant: the level read from the stored row is kept (line 370 alone)
NewCurrentLevelKeepsStored(cs, xp) ==
  IF cs.currentUserStats = <<>> THEN 0 ELSE cs.currentUserStats[1].current_level

\* lines 370-373: newCurrentLevel = calculateLevel(newTotalXp)
NewCurrentLevel(cs, xp) == calculateLevel(xp)

\* lines 339-373: select('total_points') of the user's completed sessions
XpRead(c) ==
  LET cs == Op(calls[c], "quiz_sessions.select.total_points")
      all == History(quiz_sessions)
      xp == NewTotalXp(cs, all) IN
  /\ calls[c].pc = "xpRead"
  /\ \/ /\ SetCall(c, [cs EXCEPT !.pc = "streakRead", !.allCompletedSessions = all,
                                 !.newTotalXp = xp,
                                 !.newCurrentLevel = NewCurrentLevel(cs, xp)])
        /\ UNCHANGED <<sessions, user_stats, user_achievements>>
     \/ GamificationCatch(c, cs)
  /\ UNCHANGED <<quiz_sessions, study_assignments, achievements, quiz_question_logs, hookVars,
                 today, awarded, lastRun, nUpdates>>

\* variant: the stored longest streak is kept when it is the larger one
NewLongestStreakKeepsStored(cs, rows) ==
  LET stored == IF cs.currentUserStats = <<>> THEN 0
                ELSE cs.currentUserStats[1].longest_streak
      fresh == calculateLongestStudyStreak(rows)
  IN  IF stored > fresh THEN stored ELSE fresh

\* lines 394-397: newLongestStreak = trueHistoricalLongestStreak
NewLongestStreak(cs, rows) == calculateLongestStudyStreak(rows)

\* lines 385-397: select('completed_at') of the user's completed sessions
StreakRead(c) ==
  LET cs == Op(calls[c], "quiz_sessions.select.completed_at")
      rows == CompletedSessionsOf(quiz_sessions, Me) IN
  /\ calls[c].pc = "streakRead"
  /\ \/ /\ SetCall(c, [cs EXCEPT !.pc = "upsert",
                                 !.currentStudyStreak = calculateStudyStreak(rows, today),
                                 !.newLongestStreak = NewLongestStreak(cs, rows)])
        /\ UNCHANGED <<sessions, user_stats, user_achievements>>
     \/ GamificationCatch(c, cs)
  /\ UNCHANGED <<quiz_sessions, study_assignments, achievements, quiz_question_logs, hookVars,
                 today, awarded, lastRun, nUpdates>>

\* lines 409-415
StatsToUpsert(cs) ==
  [total_xp |-> cs.newTotalXp, current_level |-> cs.newCurrentLevel,
   longest_streak |-> cs.newLongestStreak, last_quiz_date |-> today]

\* lines 418-438: upsert(statsToUpsert, { onConflict: 'user_id' })
StatsUpsert(c) ==
  LET cs == Op(calls[c], "user_stats.upsert") IN
  /\ calls[c].pc = "upsert"
  /\ \/ /\ user_stats' = <<StatsToUpsert(cs)>>
        /\ SetCall(c, [cs EXCEPT !.pc = "achievementsRead", !.upserted = TRUE,
                         !.rerunBonus =
                            IF lastRun # <<>> /\ lastRun[1].sessionId = cs.sessionId
                            THEN lastRun[1].bonusXp ELSE NoInt,
                         !.updates.bonus_xp = IF cs.bonusXp > 0 THEN cs.bonusXp ELSE @])
        /\ awarded' = IF cs.bonusXp > 0 THEN awarded \cup {cs.sessionId} ELSE awarded
        /\ lastRun' = <<[sessionId |-> cs.sessionId, bonusXp |-> cs.bonusXp]>>
        /\ UNCHANGED <<sessions, user_achievements>>
     \/ /\ GamificationCatch(c, cs)
        /\ UNCHANGED <<awarded, lastRun>>
  /\ UNCHANGED <<quiz_sessions, study_assignments, achievements, quiz_question_logs, hookVars,
                 today, nUpdates>>

\* lines 441-445: select('*') from achievements
AchievementsRead(c) ==
  LET cs == Op(calls[c], "achievements.select") IN
  /\ calls[c].pc = "achievementsRead"
  /\ \/ /\ SetCall(c, [cs EXCEPT !.pc = "unlockedRead"])
        /\ UNCHANGED <<sessions, user_stats, user_achievements>>
     \/ GamificationCatch(c, cs)
  /\ UNCHANGED <<quiz_sessions, study_assignments, achievements, quiz_question_logs, hookVars,
                 today, awarded, lastRun, nUpdates>>

\* the cases of the switch (462, 482) that await a count
CountTypes == {"total_quizzes_completed", "total_questions_answered"}

\* variant: a type without a case counts as satisfied
SyncCriteriaMetByDefault(cs, a) ==
  CASE a.criteria_type = "total_points_earned" -> cs.newTotalXp >= a.criteria_value
    [] a.criteria_type = "longest_streak" -> cs.newLongestStreak >= a.criteria_value
    [] a.criteria_type = "perfect_score" ->
         /\ FoundSession(cs).total_points = FoundSession(cs).max_points
         /\ FoundSession(cs).max_points > 0
    [] a.criteria_type = "speed_demon" ->
         FoundSession(cs).estimated_minutes <= a.criteria_value
    [] OTHER -> TRUE

\* variant: the totals compared are those of the user_stats row read at the
\* start of the event
SyncCriteriaMetAgainstPrevious(cs, a) ==
  LET prev == IF cs.currentUserStats = <<>>
              THEN [total_xp |-> 0, longest_streak |-> 0]
              ELSE cs.currentUserStats[1] IN
  CASE a.criteria_type = "total_points_earned" -> prev.total_xp >= a.criteria_value
    [] a.criteria_type = "longest_streak" -> prev.longest_streak >= a.criteria_value
    [] a.criteria_type = "perfect_score" ->
         /\ FoundSession(cs).total_points = FoundSession(cs).max_points
         /\ FoundSession(cs).max_points > 0
    [] a.criteria_type = "speed_demon" ->
         FoundSession(cs).estimated_minutes <= a.criteria_value
    [] OTHER -> FALSE

\* variant: the thresholds are compared strictly
SyncCriteriaMetStrict(cs, a) ==
  CASE a.criteria_type = "total_points_earned" -> cs.newTotalXp > a.criteria_value
    [] a.criteria_type = "longest_streak" -> cs.newLongestStreak > a.criteria_value
    [] a.criteria_type = "perfect_score" ->
         /\ FoundSession(cs).total_points = FoundSession(cs).max_points
         /\ FoundSession(cs).max_points > 0
    [] a.criteria_type = "speed_demon" ->
         FoundSession(cs).estimated_minutes < a.criteria_value
    [] OTHER -> FALSE

\* lines 458-513: criteriaMet starts false; the cases of the switch that need
\* no remote read; the accuracy_* cases and a type without a case leave it false
SyncCriteriaMet(cs, a) ==
  CASE a.criteria_type = "total_points_earned" -> cs.newTotalXp >= a.criteria_value
    [] a.criteria_type = "longest_streak" -> cs.newLongestStreak >= a.criteria_value
    [] a.criteria_type = "perfect_score" ->
         /\ FoundSession(cs).total_points = FoundSession(cs).max_points
         /\ FoundSession(cs).max_points > 0
    [] a.criteria_type = "speed_demon" ->
         FoundSession(cs).estimated_minutes <= a.criteria_value
    [] OTHER -> FALSE

\* variant: the unlocked set is not consulted
IsUnlockedNever(cs, a) == FALSE

\* line 457: unlockedAchievementIds.has(achievement.id)
IsUnlocked(cs, a) == a.id \in cs.unlocked

\* the evaluation of achievement a ended with criteriaMet = met
Evaluated(cs, a, met) ==
  [cs EXCEPT !.evaluated = @ \cup {a.id},
             !.criteriaMet = IF met THEN @ \cup {a.id} ELSE @]

\* lines 456-531: run the for loop from index j up to its next await
RECURSIVE LoopFrom(_, _)
LoopFrom(cs, j) ==
  IF j > Len(achievements) THEN [cs EXCEPT !.i = j, !.pc = "loopDone"]
  ELSE LET a == achievements[j] IN
       IF IsUnlocked(cs, a) THEN LoopFrom(cs, j + 1)
       ELSE IF a.criteria_type \in CountTypes
            THEN [cs EXCEPT !.i = j, !.pc = "count"]
       ELSE IF SyncCriteriaMet(cs, a)
            THEN [Evaluated(cs, a, TRUE) EXCEPT !.i = j, !.pc = "insert"]
       ELSE LoopFrom(Evaluated(cs, a, FALSE), j + 1)

ContinueLoop(c, cs, j) ==
  LET cs2 == LoopFrom(cs, j) IN
  IF cs2.pc = "loopDone" THEN LocalUpdate(c, cs2)
  ELSE SetCall(c, cs2) /\ sessions' = sessions

\* line 454: new Set(userUnlockedAchievements.map(ua => ua.achievement_id))
unlockedAchievementIds(rows) == {rows[k] : k \in DOMAIN rows}

\* lines 447-457: select('achievement_id') of the user, read once per pass
UnlockedRead(c) ==
  LET cs == Op(calls[c], "user_achievements.select") IN
  /\ calls[c].pc = "unlockedRead"
  /\ \/ /\ ContinueLoop(c, [cs EXCEPT !.unlocked =
                 unlockedAchievementIds(user_achievements)], 1)
        /\ UNCHANGED <<user_stats, user_achievements>>
     \/ GamificationCatch(c, cs)
  /\ UNCHANGED <<quiz_sessions, study_assignments, achievements, quiz_question_logs, hookVars,
                 today, awarded, lastRun, nUpdates>>

\* the count the select returns: completed sessions of the user (463-467) or
\* question-log rows of the user (483-486)
CountOf(a) ==
  IF a.criteria_type = "total_quizzes_completed"
  THEN Cardinality(CompletedSessionsOf(quiz_sessions, Me))
  ELSE quiz_question_logs

\* lines 468 and 487: !countError && count >= achievement.criteria_value
CountCriteriaMet(a, n, countError) == ~countError /\ n >= a.criteria_value

\* lines 462-471 and 482-490: the awaited count, then the loop goes on
CountRead(c) ==
  LET cs == Op(calls[c], "count")
      a == achievements[cs.i]
      n == CountOf(a) IN
  /\ calls[c].pc = "count"
  /\ \E countError \in BOOLEAN :
       LET cs2 == IF countError THEN [cs EXCEPT !.countError = @ \cup {a.id}] ELSE cs IN
       IF CountCriteriaMet(a, n, countError)
       THEN /\ SetCall(c, [Evaluated(cs2, a, TRUE) EXCEPT !.pc = "insert"])
            /\ sessions' = sessions
       ELSE ContinueLoop(c, Evaluated(cs2, a, FALSE), cs.i + 1)
  /\ UNCHANGED <<quiz_sessions, study_assignments, achievements, quiz_question_logs, hookVars,
                 user_stats, user_achievements,
                 today, awarded, lastRun, nUpdates>>

\* unique (user_id, achievement_id) of user_achievements: the insert of a
\* pair the table holds is rejected
UniqueViolation(rows, id) == id \in unlockedAchievementIds(rows)

\* lines 516-529: insert into user_achievements; unlockError is thrown (525),
\* else the notification follows
InsertAchievement(c) ==
  LET a == achievements[calls[c].i]
      cs == [Op(calls[c], "user_achievements.insert") EXCEPT !.attempted = @ \cup {a.id}] IN
  /\ calls[c].pc = "insert"
  /\ \/ /\ ~UniqueViolation(user_achievements, a.id)
        /\ user_achievements' = Append(user_achievements, a.id)
        /\ user_stats' = user_stats
        /\ ContinueLoop(c, [cs EXCEPT !.inserted = @ \cup {a.id},
                                      !.notified = @ \cup {a.id}], cs.i + 1)
     \/ /\ UniqueViolation(user_achievements, a.id)
        /\ GamificationCatch(c, [cs EXCEPT !.rejected = @ \cup {a.id}])
     \/ GamificationCatch(c, cs)
  /\ UNCHANGED <<quiz_sessions, study_assignments, achievements, quiz_question_logs, hookVars,
                 today, awarded, lastRun, nUpdates>>

\* the promise is settled and the caller goes on
Return(c) ==
  /\ calls[c].pc \in {"resolved", "rejected"}
  /\ SetCall(c, IdleCall)
  /\ UNCHANGED <<quiz_sessions, sessions, study_assignments, achievements, quiz_question_logs, hookVars,
                 user_stats,
                 user_achievements, today, awarded, lastRun, nUpdates>>

Next ==
  \/ Midnight
  \/ \E a \in {NoAssignment, "a1"} : CreateQuizSession(a)
  \/ LoadUserSessions
  \/ \E c \in CallIds, sid \in 1..MaxSessions, u \in UpdateInputs :
       UpdateQuizSession(c, sid, u)
  \/ \E c \in CallIds : PrimaryWrite(c)
  \/ \E c \in CallIds : MarkAssignment(c)
  \/ \E c \in CallIds : AssignmentRead(c)
  \/ \E c \in CallIds : StatsRead(c)
  \/ \E c \in CallIds : XpRead(c)
  \/ \E c \in CallIds : StreakRead(c)
  \/ \E c \in CallIds : StatsUpsert(c)
  \/ \E c \in CallIds : AchievementsRead(c)
  \/ \E c \in CallIds : UnlockedRead(c)
  \/ \E c \in CallIds : CountRead(c)
  \/ \E c \in CallIds : InsertAchievement(c)
  \/ \E c \in CallIds : Return(c)

Spec == Init /\ [][Next]_vars

\* ------------------------------------------- one completion event, SpecPass
\* One completing call on the histories, catalogues and stored aggregates the
\* program can have been left with: a session in progress, possibly a session
\* completed the day before, possibly a user_stats row written by earlier
\* events whose sessions have since been deleted (deleteQuizSession, 552-567).
PassCatalogues ==
  { << [id |-> 1, criteria_type |-> "accuracy_book_ruth", criteria_value |-> 1],
       [id |-> 2, criteria_type |-> "weekly_goal", criteria_value |-> 1],
       [id |-> 3, criteria_type |-> "total_quizzes_completed", criteria_value |-> 2],
       [id |-> 4, criteria_type |-> "total_points_earned", criteria_value |-> 2] >>,
    << [id |-> 1, criteria_type |-> "perfect_score", criteria_value |-> 1],
       [id |-> 2, criteria_type |-> "speed_demon", criteria_value |-> 1],
       [id |-> 3, criteria_type |-> "longest_streak", criteria_value |-> 2],
       [id |-> 4, criteria_type |-> "total_questions_answered", criteria_value |-> 1] >> }

PassSession(results, max_points, estimated_minutes) ==
  [id |-> 1, user_id |-> Me, status |-> "active", results |-> results,
   total_points |-> SumSeq(results), assignment_id |-> NoAssignment,
   completed_at |-> NoInt, bonus_xp |-> NoInt, max_points |-> max_points,
   estimated_minutes |-> estimated_minutes]

EarlierSession ==
  [id |-> 2, user_id |-> Me, status |-> "completed", results |-> <<1>>,
   total_points |-> 1, assignment_id |-> NoAssignment, completed_at |-> 1,
   bonus_xp |-> NoInt, max_points |-> 1, estimated_minutes |-> 1]

StoredStats ==
  [total_xp |-> 3 * XP_PER_LEVEL, current_level |-> calculateLevel(3 * XP_PER_LEVEL),
   longest_streak |-> MaxDay + 1, last_quiz_date |-> 1]

InitPass ==
  /\ achievements \in PassCatalogues
  /\ \E results \in ResultSeqs, max_points \in 0..(MaxResults * MaxPoints),
        estimated_minutes \in 1..2, earlier \in SUBSET {EarlierSession} :
       /\ quiz_sessions = {OtherUserRow, PassSession(results, max_points, estimated_minutes)}
                            \cup earlier
       /\ sessions = {PassSession(results, max_points, estimated_minutes)} \cup earlier
  /\ study_assignments = [date |-> 1]
  /\ quiz_question_logs \in 0..1
  /\ user_stats \in {<<>>, <<StoredStats>>}
  /\ user_achievements = <<>>
  /\ today \in Days
  /\ calls = [c \in CallIds |-> IdleCall]
  /\ awarded = {}
  /\ lastRun = <<>>
  /\ HooksAtMount
  /\ nUpdates = MaxUpdates - 1

NextPass ==
  \/ \E c \in CallIds, sid \in 1..MaxSessions, u \in UpdateInputs :
       u.status = "completed" /\ UpdateQuizSession(c, sid, u)
  \/ \E c \in CallIds : PrimaryWrite(c)
  \/ \E c \in CallIds : StatsRead(c)
  \/ \E c \in CallIds : XpRead(c)
  \/ \E c \in CallIds : StreakRead(c)
  \/ \E c \in CallIds : StatsUpsert(c)
  \/ \E c \in CallIds : AchievementsRead(c)
  \/ \E c \in CallIds : UnlockedRead(c)
  \/ \E c \in CallIds : CountRead(c)
  \/ \E c \in CallIds : InsertAchievement(c)
  \/ \E c \in CallIds : Return(c)

SpecPass == InitPass /\ [][NextPass]_vars

\* ------------------------------ streaks of a drawn history, SpecStreaks
\* One completing call on a history whose completion days, and today, are
\* drawn by Init; the completion day of the call is drawn by the call.
MaxStreakDay == 4
MaxHistory == 2
StreakDays == 1..MaxStreakDay
HistoryIds == 2..(MaxHistory + 1)

StreakCatalogue ==
  << [id |-> 1, criteria_type |-> "longest_streak", criteria_value |-> 2] >>

HistorySession(id, day) ==
  [id |-> id, user_id |-> Me, status |-> "completed", results |-> <<1>>,
   total_points |-> 1, assignment_id |-> NoAssignment, completed_at |-> day,
   bonus_xp |-> NoInt, max_points |-> 1, estimated_minutes |-> 1]

InitStreaks ==
  /\ achievements = StreakCatalogue
  /\ \E present \in SUBSET HistoryIds, days \in [HistoryIds -> StreakDays] :
       LET earlier == {HistorySession(i, days[i]) : i \in present} IN
       /\ quiz_sessions = {OtherUserRow, PassSession(<<1>>, 1, 1)} \cup earlier
       /\ sessions = {PassSession(<<1>>, 1, 1)} \cup earlier
  /\ study_assignments = [date |-> 1]
  /\ quiz_question_logs = 0
  /\ user_stats \in {<<>>, <<StoredStats>>}
  /\ user_achievements = <<>>
  /\ today \in StreakDays
  /\ calls = [c \in CallIds |-> IdleCall]
  /\ awarded = {}
  /\ lastRun = <<>>
  /\ HooksAtMount
  /\ nUpdates = MaxUpdates - 1

\* updates of a completing call, completed on any day
StreakInputs ==
  [status : {"completed"}, results : {NoResults}, total_points : {NoInt},
   completed_at : StreakDays, bonus_xp : {NoInt}]

NextStreaks ==
  \/ \E c \in CallIds, sid \in 1..MaxSessions, u \in StreakInputs :
       UpdateQuizSession(c, sid, u)
  \/ \E c \in CallIds : PrimaryWrite(c)
  \/ \E c \in CallIds : StatsRead(c)
  \/ \E c \in CallIds : XpRead(c)
  \/ \E c \in CallIds : StreakRead(c)
  \/ \E c \in CallIds : StatsUpsert(c)
  \/ \E c \in CallIds : AchievementsRead(c)
  \/ \E c \in CallIds : UnlockedRead(c)
  \/ \E c \in CallIds : InsertAchievement(c)
  \/ \E c \in CallIds : Return(c)

SpecStreaks == InitStreaks /\ [][NextStreaks]_vars

\* --------------------------------------------- useQuizTimer, SpecTimer
MaxTime == 3
\* calls of onTimeExpired are counted up to this number
MaxExpired == 2
Times == 0..MaxTime

\* the provider's state as a page with a timer leaves it
ProviderAtMount ==
  /\ quiz_sessions = {OtherUserRow}
  /\ sessions = {}
  /\ study_assignments = [date |-> 1]
  /\ achievements = SeedAchievements
  /\ quiz_question_logs = 0
  /\ user_stats = <<>>
  /\ user_achievements = <<>>
  /\ today = 1
  /\ calls = [c \in CallIds |-> IdleCall]
  /\ awarded = {}
  /\ lastRun = <<>>
  /\ nUpdates = 0

\* lines 9-13: useQuizTimer({ initialTime, ... })
InitTimer ==
  /\ ProviderAtMount
  /\ \E initialTime \in Times : timer = TimerAt(initialTime)
  /\ leaderboard = LeaderboardAtMount
  /\ history = HistoryAtMount

\* variant: the timer expires only below zero
ExpiredBelowZero(newTimeLeft) == newTimeLeft < 0

\* line 29: if (newTimeLeft <= 0)
Expired(newTimeLeft) == newTimeLeft <= 0

\* lines 21-39: the callback of setInterval, which runs while timerActive
Tick ==
  LET newTimeLeft == timer.timeLeft - 1 IN
  /\ timer.timerActive
  /\ timer' = [timer EXCEPT
                 !.onTimeUpdate = <<newTimeLeft>>,
                 !.timerActive = IF Expired(newTimeLeft) THEN FALSE ELSE @,
                 !.hasTimeExpired = IF Expired(newTimeLeft) THEN TRUE ELSE @,
                 !.onTimeExpired = IF Expired(newTimeLeft) /\ @ < MaxExpired
                                   THEN @ + 1 ELSE @,
                 !.timeLeft = IF newTimeLeft > 0 THEN newTimeLeft ELSE 0,
                 !.ticks = IF @ <= MaxTime THEN @ + 1 ELSE @]
  /\ UNCHANGED <<providerVars, leaderboard, history>>

\* lines 41-46
StartTimer ==
  /\ timer' = IF ~timer.timerStarted /\ ~timer.hasTimeExpired
              THEN [timer EXCEPT !.timerActive = TRUE, !.timerStarted = TRUE,
                                 !.startedWith = IF @ = NoInt THEN timer.timeLeft ELSE @,
                                 !.ticks = IF timer.startedWith = NoInt THEN 0 ELSE @]
              ELSE timer
  /\ UNCHANGED <<providerVars, leaderboard, history>>

\* lines 48-53
ResetTimer(newTime) ==
  /\ timer' = [timer EXCEPT !.timeLeft = newTime, !.timerActive = FALSE,
                            !.timerStarted = FALSE, !.hasTimeExpired = FALSE,
                            !.onTimeExpired = 0,
                            !.startedWith = NoInt, !.ticks = 0]
  /\ UNCHANGED <<providerVars, leaderboard, history>>

\* lines 55-57
StopTimer ==
  /\ timer' = [timer EXCEPT !.timerActive = FALSE]
  /\ UNCHANGED <<providerVars, leaderboard, history>>

\* lines 59-61
SetTimerActiveState(active) ==
  /\ timer' = [timer EXCEPT !.timerActive = active]
  /\ UNCHANGED <<providerVars, leaderboard, history>>

\* lines 63-65
SetTimerStartedState(started) ==
  /\ timer' = [timer EXCEPT !.timerStarted = started]
  /\ UNCHANGED <<providerVars, leaderboard, history>>

\* lines 13, 74: the setter of hasTimeExpired is handed to the caller
SetHasTimeExpired(expired) ==
  /\ timer' = [timer EXCEPT !.hasTimeExpired = expired]
  /\ UNCHANGED <<providerVars, leaderboard, history>>

NextTimer ==
  \/ Tick
  \/ StartTimer
  \/ \E newTime \in Times : ResetTimer(newTime)
  \/ StopTimer
  \/ \E active \in BOOLEAN : SetTimerActiveState(active)
  \/ \E started \in BOOLEAN : SetTimerStartedState(started)
  \/ \E expired \in BOOLEAN : SetHasTimeExpired(expired)

SpecTimer == InitTimer /\ [][NextTimer]_vars

\* ------------------------------- a run of the timer, SpecTimerRun
\* Once startTimer has taken effect, stopTimer, resetTimer and
\* setTimerActiveState(false) are not called any more; the interval fires
\* as long as it is set (lines 23-35).
TimerRunStarted == timer.startedWith # NoInt

NextTimerRun ==
  \/ Tick
  \/ StartTimer
  \/ \E newTime \in Times : ~TimerRunStarted /\ ResetTimer(newTime)
  \/ ~TimerRunStarted /\ StopTimer
  \/ \E active \in BOOLEAN :
       (active \/ ~TimerRunStarted) /\ SetTimerActiveState(active)
  \/ \E started \in BOOLEAN : SetTimerStartedState(started)
  \/ \E expired \in BOOLEAN : SetHasTimeExpired(expired)

SpecTimerRun == InitTimer /\ [][NextTimerRun]_vars /\ WF_vars(Tick)

\* ---------------------------- useTeamLeaderboardData, SpecLeaderboard
MaxFetches == 2
\* INTERVAL '30 days' of the default window
DefaultWindowDays == 30
TeamIds == {"t1"}
LeaderboardIds == 1..(MaxHistory + 1)
\* startDate?: Date, endDate?: Date
DateInputs == {NoInt} \cup {d \in StreakDays : 1 < d /\ d < MaxStreakDay}

RECURSIVE SumMaxPoints(_)
SumMaxPoints(rows) ==
  IF rows = {} THEN 0
  ELSE LET r == CHOOSE x \in rows : TRUE
       IN  r.max_points + SumMaxPoints(rows \ {r})

\* SQL lines 126-131: the users joined to team_members of the team
team_members(p_team_id) == IF p_team_id \in TeamIds THEN {Me, "u2"} ELSE {}

\* SQL lines 105-122: daily_activity is the set of distinct study dates;
\* rn numbers them from the most recent one, grp is study_date - rn days,
\* and the rows whose grp is the grp of the most recent date are counted
SqlStudyStreak(daily_activity) ==
  LET rn(d) == Cardinality({x \in daily_activity : x >= d})
      grp(d) == d - rn(d)
      first == {d \in daily_activity : \A x \in daily_activity : x <= d}
  IN  Cardinality({d \in daily_activity : \E m \in first : grp(d) = grp(m)})

\* SQL lines 53-148, one row per member (the order of the rows is left out);
\* an absent argument is NULL and takes the default of lines 78-79
get_team_leaderboard_data(p_team_id, p_start_date, p_end_date) ==
  LET v_start_date == IF p_start_date = NoInt THEN today - DefaultWindowDays
                      ELSE p_start_date
      v_end_date == IF p_end_date = NoInt THEN today ELSE p_end_date
      qs(u) == {r \in quiz_sessions :
                  /\ r.user_id = u
                  /\ r.status = "completed"
                  /\ r.completed_at # NoInt
                  /\ v_start_date <= r.completed_at
                  /\ r.completed_at <= v_end_date}
  IN  {[user_id |-> u,
        total_quizzes_completed |-> Cardinality(qs(u)),
        study_streak |-> SqlStudyStreak({r.completed_at : r \in qs(u)}),
        total_points_earned |-> SumTotals(qs(u)),
        total_possible_points |-> SumMaxPoints(qs(u))] : u \in team_members(p_team_id)}

\* lines 58-69
TransformedData(leaderboardData) ==
  {[userId |-> member.user_id,
    totalQuizzesCompleted |-> member.total_quizzes_completed,
    studyStreak |-> member.study_streak,
    totalPointsEarned |-> member.total_points_earned,
    totalPossiblePoints |-> member.total_possible_points] : member \in leaderboardData}

\* a team whose member Me has completed sessions on days drawn here
InitLeaderboard ==
  /\ \E present \in SUBSET LeaderboardIds, days \in [LeaderboardIds -> StreakDays] :
       quiz_sessions = {OtherUserRow} \cup {HistorySession(i, days[i]) : i \in present}
  /\ sessions = {}
  /\ study_assignments = [date |-> 1]
  /\ achievements = SeedAchievements
  /\ quiz_question_logs = 0
  /\ user_stats = <<>>
  /\ user_achievements = <<>>
  /\ today = MaxStreakDay
  /\ calls = [c \in CallIds |-> IdleCall]
  /\ awarded = {}
  /\ lastRun = <<>>
  /\ nUpdates = 0
  /\ timer = TimerAt(0)
  /\ leaderboard = LeaderboardAtMount
  /\ history = HistoryAtMount

\* the outcome of a fetch: whether it succeeded and the data it computed
Outcome(request, ok, fetched) == [request |-> request, ok |-> ok, fetched |-> fetched]

\* lines 30-48 and 83-85: fetchTeamLeaderboardData up to its await, run by
\* the effect for the props of the render or by refreshData
FetchTeamLeaderboardData(teamId, startDate, endDate) ==
  LET request == [id |-> leaderboard.nFetches + 1, teamId |-> teamId,
                  startDate |-> startDate, endDate |-> endDate] IN
  /\ leaderboard.nFetches < MaxFetches
  /\ leaderboard' =
       IF teamId = NoTeam
       THEN [leaderboard EXCEPT !.nFetches = @ + 1, !.loading = FALSE,
                                !.data = {},
                                !.dataFor = <<Outcome(request, TRUE, {})>>,
                                !.latest = <<Outcome(request, TRUE, {})>>]
       ELSE [leaderboard EXCEPT !.nFetches = @ + 1, !.loading = TRUE,
                                !.error = NoError, !.requests = @ \cup {request},
                                !.latest = <<>>]
  /\ UNCHANGED <<providerVars, timer, history>>

\* lines 47-48: the arguments of the rpc; startDate and endDate are not
\* among them
RpcArguments(request) ==
  [p_team_id |-> request.teamId, p_start_date |-> NoInt, p_end_date |-> NoInt]

\* lines 47-80: the rpc returns and fetchTeamLeaderboardData runs to its end
RpcReturns(request, leaderboardError) ==
  LET args == RpcArguments(request)
      leaderboardData ==
        get_team_leaderboard_data(args.p_team_id, args.p_start_date, args.p_end_date)
  IN
  /\ request \in leaderboard.requests
  /\ leaderboard' =
       LET outcome == IF leaderboardError THEN Outcome(request, FALSE, {})
                      ELSE Outcome(request, TRUE, TransformedData(leaderboardData))
           latest == IF request.id = leaderboard.nFetches THEN <<outcome>>
                     ELSE leaderboard.latest
       IN
       IF leaderboardError
       THEN [leaderboard EXCEPT !.requests = @ \ {request}, !.loading = FALSE,
                                !.error = "failed", !.data = {},
                                !.dataFor = <<outcome>>, !.latest = latest]
       ELSE [leaderboard EXCEPT !.requests = @ \ {request}, !.loading = FALSE,
                                !.data = TransformedData(leaderboardData),
                                !.dataFor = <<outcome>>, !.latest = latest]
  /\ UNCHANGED <<providerVars, timer, history>>

Requests ==
  [id : 1..MaxFetches, teamId : TeamIds, startDate : DateInputs, endDate : DateInputs]

NextLeaderboard ==
  \/ \E teamId \in TeamIds \cup {NoTeam}, startDate \in DateInputs, endDate \in DateInputs :
       FetchTeamLeaderboardData(teamId, startDate, endDate)
  \/ \E request \in Requests, leaderboardError \in BOOLEAN :
       RpcReturns(request, leaderboardError)

SpecLeaderboard == InitLeaderboard /\ [][NextLeaderboard]_vars

\* ------------------------------ useQuizHistoryData (part_000), SpecDataHooks
NoUser == "none"
\* time_spent summed over the quiz_question_logs rows of a session, seconds
LogSeconds == {0, 120}
FetchIds == 1..MaxFetches

\* lines 35-59: the completed sessions of the user from startDate to the
\* end of endDate (the order of the rows is left out)
QuizHistoryQuery(userId, startDate, endDate) ==
  {r \in CompletedSessionsOf(quiz_sessions, userId) :
     /\ startDate # NoInt => (r.completed_at # NoInt /\ r.completed_at >= startDate)
     /\ endDate # NoInt => (r.completed_at # NoInt /\ r.completed_at < endDate + 1)}

\* lines 71-74 and 93-101: the columns selected, with the minutes of the
\* logs in place of estimated_minutes where they round to more than 0
ProcessedSessions(baseSessions, actualSeconds) ==
  LET actualMinutes == (actualSeconds + 30) \div 60 IN
  {[id |-> r.id, completed_at |-> r.completed_at, total_points |-> r.total_points,
    max_points |-> r.max_points,
    estimated_minutes |-> IF actualMinutes > 0 THEN actualMinutes
                          ELSE r.estimated_minutes] : r \in baseSessions}

\* the request of the hook with this id, if it is in flight
HistoryRequest(id) == {r \in history.requests : r.id = id}

\* the hook's state after a fetch has ended with this outcome
HistoryEnds(hook, request, outcome) ==
  [hook EXCEPT !.requests = @ \ {request}, !.loading = FALSE,
               !.dataFor = <<outcome>>,
               !.latest = IF outcome.request.id = hook.nFetches THEN <<outcome>> ELSE @]

\* lines 21-61 and 114-116: fetchQuizHistory up to its first await
FetchQuizHistory(userId, startDate, endDate) ==
  LET request == [id |-> history.nFetches + 1, userId |-> userId,
                  startDate |-> startDate, endDate |-> endDate,
                  pc |-> "sessions", baseSessions |-> {}] IN
  /\ history.nFetches < MaxFetches
  /\ history' =
       IF userId = NoUser
       THEN [history EXCEPT !.nFetches = @ + 1, !.data = {}, !.loading = FALSE,
                            !.error = NoError,
                            !.dataFor = <<Outcome(request, TRUE, {})>>,
                            !.latest = <<Outcome(request, TRUE, {})>>]
       ELSE [history EXCEPT !.nFetches = @ + 1, !.loading = TRUE,
                            !.error = NoError, !.requests = @ \cup {request},
                            !.latest = <<>>]
  /\ UNCHANGED <<providerVars, timer, leaderboard>>

\* lines 61-91 and 103-111: the query of quiz_sessions returns
SessionsReturn(id, sessionsError) ==
  \E request \in HistoryRequest(id) :
    LET baseSessions ==
          QuizHistoryQuery(request.userId, request.startDate, request.endDate)
        hook == [history EXCEPT !.requests = @ \ {request}]
    IN
    /\ request.pc = "sessions"
    /\ history' =
         IF sessionsError
         THEN [HistoryEnds(history, request, Outcome(request, FALSE, {}))
                 EXCEPT !.error = "failed", !.data = {}]
         ELSE IF baseSessions = {}
         THEN [HistoryEnds(history, request, Outcome(request, TRUE, {}))
                 EXCEPT !.data = ProcessedSessions(baseSessions, 0)]
         ELSE [hook EXCEPT !.requests = @ \cup
                 {[request EXCEPT !.pc = "logs", !.baseSessions = baseSessions]}]
    /\ UNCHANGED <<providerVars, timer, leaderboard>>

\* lines 80-111: the query of quiz_question_logs returns; its error is
\* ignored
LogsReturn(id, logsError, seconds) ==
  \E request \in HistoryRequest(id) :
    LET actualSeconds == IF logsError THEN 0 ELSE seconds
        processedSessions == ProcessedSessions(request.baseSessions, actualSeconds)
    IN
    /\ request.pc = "logs"
    /\ history' =
         [HistoryEnds(history, request, Outcome(request, TRUE, processedSessions))
            EXCEPT !.data = processedSessions]
    /\ UNCHANGED <<providerVars, timer, leaderboard>>

\* a page that mounts one of the two data hooks and changes its props or
\* calls refreshData while requests are in flight
NextDataHooks ==
  \/ \E teamId \in TeamIds \cup {NoTeam}, startDate \in DateInputs, endDate \in DateInputs :
       history.nFetches = 0 /\ FetchTeamLeaderboardData(teamId, startDate, endDate)
  \/ \E request \in Requests, leaderboardError \in BOOLEAN :
       RpcReturns(request, leaderboardError)
  \/ \E userId \in {Me, NoUser}, startDate \in DateInputs, endDate \in DateInputs :
       leaderboard.nFetches = 0 /\ FetchQuizHistory(userId, startDate, endDate)
  \/ \E id \in FetchIds, sessionsError \in BOOLEAN : SessionsReturn(id, sessionsError)
  \/ \E id \in FetchIds, logsError \in BOOLEAN, seconds \in LogSeconds :
       LogsReturn(id, logsError, seconds)

SpecDataHooks == InitLeaderboard /\ [][NextDataHooks]_vars

\* ------------------------------------- overlapping events, SpecConcurrent
\* The user has two sessions in progress (two tabs of the application); the
\* completing calls of the first MaxUpdates events may overlap, each a
\* sequence of separate remote reads and writes, and one more completing
\* call is then made alone.  The calls deliver no results: the sessions hold
\* theirs already.
ConcurrentCallIds == {1, 2}

ConcurrentSession(id) ==
  [id |-> id, user_id |-> Me, status |-> "active", results |-> <<1>>,
   total_points |-> 1, assignment_id |-> IF id = 1 THEN "a1" ELSE NoAssignment,
   completed_at |-> NoInt,
   bonus_xp |-> NoInt, max_points |-> 1, estimated_minutes |-> 1]

InitConcurrent ==
  /\ quiz_sessions = {OtherUserRow, ConcurrentSession(1), ConcurrentSession(2)}
  /\ sessions = {ConcurrentSession(1), ConcurrentSession(2)}
  /\ study_assignments = [date |-> 1]
  /\ achievements = SeedAchievements
  /\ quiz_question_logs = 0
  /\ user_stats = <<>>
  /\ user_achievements = <<>>
  /\ today \in Days
  /\ calls = [c \in ConcurrentCallIds |-> IdleCall]
  /\ awarded = {}
  /\ lastRun = <<>>
  /\ HooksAtMount
  /\ nUpdates = 0

CompletingInputs ==
  {u \in UpdateInputs : /\ u.status = "completed"
                        /\ u.results = NoResults
                        /\ u.total_points = NoInt}

\* a call made while another call may be in flight
UpdateQuizSessionOverlapping(c, sessionId, updates) ==
  /\ nUpdates < MaxUpdates
  /\ StartUpdate(c, sessionId, updates)

\* the next event: the call made once the others have ended, with no other
\* call after it
UpdateQuizSessionAlone(c, sessionId, updates) ==
  /\ AllIdle
  /\ nUpdates = MaxUpdates
  /\ StartUpdate(c, sessionId, updates)

RanAlone(cs) == cs.pc # "idle" /\ nUpdates = MaxUpdates + 1

NextConcurrent ==
  \/ \E c \in ConcurrentCallIds, sid \in 1..MaxSessions, u \in CompletingInputs :
       UpdateQuizSessionOverlapping(c, sid, u)
  \/ \E c \in ConcurrentCallIds, sid \in 1..MaxSessions, u \in CompletingInputs :
       UpdateQuizSessionAlone(c, sid, u)
  \/ \E c \in ConcurrentCallIds : PrimaryWrite(c)
  \/ \E c \in ConcurrentCallIds : MarkAssignment(c)
  \/ \E c \in ConcurrentCallIds : AssignmentRead(c)
  \/ \E c \in ConcurrentCallIds : StatsRead(c)
  \/ \E c \in ConcurrentCallIds : XpRead(c)
  \/ \E c \in ConcurrentCallIds : StreakRead(c)
  \/ \E c \in ConcurrentCallIds : StatsUpsert(c)
  \/ \E c \in ConcurrentCallIds : AchievementsRead(c)
  \/ \E c \in ConcurrentCallIds : UnlockedRead(c)
  \/ \E c \in ConcurrentCallIds : CountRead(c)
  \/ \E c \in ConcurrentCallIds : InsertAchievement(c)
  \/ \E c \in ConcurrentCallIds : Return(c)

SpecConcurrent == InitConcurrent /\ [][NextConcurrent]_vars

\* ================================================================ claims
StoredRow(id) == CHOOSE r \in quiz_sessions : r.id = id
LocalRow(id) == CHOOSE r \in sessions : r.id = id
MyCompleted == {r \in quiz_sessions : r.user_id = Me /\ r.status = "completed"}
WriteDone(cs) == cs.pc \notin {"idle", "update"} /\ ~cs.primaryError
BonusDecided(cs) ==
  /\ WriteDone(cs)
  /\ cs.updates.status = "completed"
  /\ cs.pc \notin {"markAssignment", "assignmentRead"}
PipelineRan(cs) == "user_stats.select" \in cs.ops

\* C1: once the primary write of a call whose updates carry a results array
\* has succeeded, the stored total_points of the session is the sum of
\* pointsEarned over that array, whatever total the caller supplied and
\* whatever total the session had before.
C1_TotalPointsFromResults ==
  \A c \in CallIds :
    (WriteDone(calls[c]) /\ calls[c].updates.results # NoResults)
      => StoredRow(calls[c].sessionId).total_points = SumSeq(calls[c].updates.results)

C1_Witness ==
  \E c \in CallIds :
    /\ WriteDone(calls[c])
    /\ calls[c].updates.results # NoResults
    /\ SumSeq(calls[c].updates.results) > 0
    /\ FoundSession(calls[c]).total_points # SumSeq(calls[c].updates.results)

C3_TotalXpIsHistorySumPlusBonus ==
  \A c \in CallIds :
    calls[c].upserted =>
      /\ user_stats # <<>>
      /\ calls[c].sessionId \in {r.id : r \in MyCompleted}
      /\ calls[c].allCompletedSessions =
            {[id |-> r.id, total_points |-> r.total_points] : r \in MyCompleted}
      /\ calls[c].bonusXp \in {0, STUDY_SCHEDULE_BONUS_XP}
      /\ user_stats[1].total_xp = SumTotals(MyCompleted) + calls[c].bonusXp

C3_Witness ==
  \E c \in CallIds :
    /\ calls[c].upserted
    /\ calls[c].bonusXp = STUDY_SCHEDULE_BONUS_XP
    /\ Cardinality(MyCompleted) = 2
    /\ SumTotals(MyCompleted) > 0

\* C4: a second completion of the same session on an unchanged history of
\* completed sessions upserts the total_xp the first one upserted.
C4_RerunSameTotalXp ==
  \A c \in CallIds :
    (calls[c].upserted /\ calls[c].rerunBonus # NoInt)
      => calls[c].newTotalXp = calls[c].currentUserStats[1].total_xp

\* C5: after each completion event total_xp is the sum of total_points of the
\* user's completed sessions plus 10 for every completed session that was
\* awarded the bonus.
C5_BonusKeptInTotalXp ==
  \A c \in CallIds :
    calls[c].upserted =>
      user_stats[1].total_xp =
        SumTotals(MyCompleted)
        + STUDY_SCHEDULE_BONUS_XP * Cardinality({r \in MyCompleted : r.id \in awarded})

\* C6: the bonus decided in a completion event is 10 exactly when the session
\* has an assignment, the assignment was read and the session's completion
\* date is the assignment's date; otherwise it is 0.
C6_BonusIffCompletedOnScheduledDay ==
  \A c \in CallIds :
    BonusDecided(calls[c]) =>
      calls[c].bonusXp =
        IF /\ StoredRow(calls[c].sessionId).assignment_id # NoAssignment
           /\ calls[c].assignment # NoInt
           /\ StoredRow(calls[c].sessionId).completed_at = calls[c].assignment
        THEN STUDY_SCHEDULE_BONUS_XP ELSE 0

\* C7: the gamification pipeline of a call has run exactly when the call
\* moved its session into completed from another status.
C7_PipelineOncePerTransition ==
  \A c \in CallIds :
    calls[c].pc = "resolved" =>
      (PipelineRan(calls[c])
         <=> (calls[c].updates.status = "completed"
              /\ calls[c].priorStatus # "completed"))

\* C8: when the primary write fails the call is rejected, it has made no
\* other remote call (no assignment marking, no stats or achievement read or
\* write), it has shown no notification and the local list is as it was.
C8_PrimaryFailureAborts ==
  \A c \in CallIds :
    calls[c].primaryError =>
      /\ calls[c].pc = "rejected"
      /\ calls[c].ops = {"quiz_sessions.update"}
      /\ calls[c].notified = {}
      /\ calls[c].inserted = {}
      /\ ~calls[c].upserted
      /\ sessions = calls[c].closure

C8_Witness ==
  \E c \in CallIds :
    /\ calls[c].primaryError
    /\ calls[c].updates.status = "completed"
    /\ FoundSession(calls[c]).assignment_id # NoAssignment
    /\ FoundSession(calls[c]) # Merge(FoundSession(calls[c]), calls[c].updates)

\* C9: when a read or write of the gamification pipeline fails the call still
\* resolves, the stored session keeps the update and the local list has the
\* session's changes.
C9_GamificationFailureNotFatal ==
  \A c \in CallIds :
    calls[c].gamFailed =>
      /\ calls[c].pc = "resolved"
      /\ StoredRow(calls[c].sessionId)
           = Merge(StoredRow(calls[c].sessionId),
                   [calls[c].updates EXCEPT !.bonus_xp = NoInt])
      /\ LocalRow(calls[c].sessionId)
           = Merge(LocalRow(calls[c].sessionId), calls[c].updates)

C9_Witness ==
  \E c \in CallIds :
    /\ calls[c].gamFailed
    /\ calls[c].updates.results # NoResults
    /\ FoundSession(calls[c]).status # "completed"
    /\ LocalRow(calls[c].sessionId) # FoundSession(calls[c])

\* C10: when the achievement pass fails after the stats upsert of the same
\* event, user_stats keeps the upserted values and the achievements inserted
\* before the failure are still in user_achievements.
C10_CommittedWritesSurviveFailure ==
  \A c \in CallIds :
    (calls[c].gamFailed /\ calls[c].upserted) =>
      /\ user_stats # <<>>
      /\ user_stats[1].total_xp = calls[c].newTotalXp
      /\ user_stats[1].current_level = calls[c].newCurrentLevel
      /\ user_stats[1].longest_streak = calls[c].newLongestStreak
      /\ calls[c].inserted \subseteq
            {user_achievements[k] : k \in DOMAIN user_achievements}

C10_Witness ==
  \E c \in CallIds :
    /\ calls[c].gamFailed
    /\ calls[c].upserted
    /\ calls[c].inserted # {}
    /\ calls[c].currentUserStats # user_stats

\* ----------------------------------------------------------- C11 .. C20
Completing(cs) == WriteDone(cs) /\ cs.updates.status = "completed"
PassDone(cs) == cs.pc = "resolved" /\ cs.i = Len(achievements) + 1
Unlocked == unlockedAchievementIds(user_achievements)

\* C11: when a completion event has ended, a failure of the bonus check has
\* not kept the stats step from running, a failure of the stats step has not
\* kept the achievements from being read and evaluated, and a failed insert
\* of one achievement has not kept the loop from reaching the end of the
\* catalogue.
C11_FailuresIsolatedPerSubStep ==
  \A c \in CallIds :
    (calls[c].pc = "resolved" /\ Completing(calls[c])) =>
      /\ "user_stats.select" \in calls[c].ops
      /\ "achievements.select" \in calls[c].ops
      /\ calls[c].attempted # calls[c].inserted => PassDone(calls[c])

\* C12: with completion events running one after another, user_achievements
\* never holds an achievement twice, and no insert is attempted in a pass for
\* an achievement of the unlocked set read at the start of that pass.
C12_UnlockedNeverInsertedAgain ==
  /\ \A k1, k2 \in DOMAIN user_achievements :
       user_achievements[k1] = user_achievements[k2] => k1 = k2
  /\ \A c \in CallIds :
       /\ calls[c].attempted \cap calls[c].unlocked = {}
       /\ calls[c].pc = "insert" => achievements[calls[c].i].id \notin calls[c].unlocked

C12_Witness ==
  \E c \in CallIds :
    /\ PassDone(calls[c])
    /\ 1 \in calls[c].unlocked
    /\ CountOf(achievements[1]) >= achievements[1].criteria_value
    /\ 2 \in calls[c].inserted
    /\ Len(user_achievements) = 2

Catalogue == {achievements[k] : k \in DOMAIN achievements}
RuledTypes ==
  {"total_quizzes_completed", "total_points_earned", "longest_streak",
   "total_questions_answered", "perfect_score", "speed_demon"}
PassStarted(cs) == cs.i >= 1
RowsOf(id) == {k \in DOMAIN user_achievements : user_achievements[k] = id}

\* the criteria of a by the measurements of section 4.3 of the specification,
\* taken on the tables as the event left them
CriteriaHolds(cs, a) ==
  CASE a.criteria_type = "total_quizzes_completed" ->
         Cardinality(MyCompleted) >= a.criteria_value
    [] a.criteria_type = "total_points_earned" ->
         user_stats # <<>> /\ user_stats[1].total_xp >= a.criteria_value
    [] a.criteria_type = "longest_streak" ->
         user_stats # <<>> /\ user_stats[1].longest_streak >= a.criteria_value
    [] a.criteria_type = "total_questions_answered" ->
         quiz_question_logs >= a.criteria_value
    [] a.criteria_type = "perfect_score" ->
         /\ StoredRow(cs.sessionId).total_points = StoredRow(cs.sessionId).max_points
         /\ StoredRow(cs.sessionId).max_points > 0
    [] a.criteria_type = "speed_demon" ->
         StoredRow(cs.sessionId).estimated_minutes <= a.criteria_value
    [] OTHER -> FALSE

\* C15: when a call that began its achievement pass has ended, every
\* achievement outside the unlocked set whose criteria is met (as the pass
\* found it, or by its measurement when the pass did not come to it) had one
\* insert, has one row and its notification if the insert succeeded and
\* neither if it failed; one whose criteria is not met had no insert and no
\* notification.
C15_OneInsertAndNotificationPerMet ==
  \A c \in CallIds :
    (calls[c].pc = "resolved" /\ PassStarted(calls[c])) =>
      \A a \in Catalogue :
        LET cs == calls[c]
            met == IF a.id \in cs.evaluated THEN a.id \in cs.criteriaMet
                   ELSE CriteriaHolds(cs, a)
        IN  a.id \notin cs.unlocked =>
              IF met
              THEN /\ a.id \in cs.attempted
                   /\ a.id \in cs.notified <=> a.id \in cs.inserted
                   /\ Cardinality(RowsOf(a.id)) = IF a.id \in cs.inserted THEN 1 ELSE 0
              ELSE /\ a.id \notin cs.attempted
                   /\ a.id \notin cs.notified
                   /\ RowsOf(a.id) = {}

\* C16: a perfect_score achievement evaluated in a completion event whose
\* update delivers the final results is found satisfied exactly when the sum
\* of those results equals the session's max_points and max_points > 0.
C16_PerfectScoreFromFinalResults ==
  \A c \in CallIds :
    \A a \in Catalogue :
      (/\ a.criteria_type = "perfect_score"
       /\ a.id \in calls[c].evaluated
       /\ calls[c].updates.results # NoResults) =>
        (a.id \in calls[c].criteriaMet
           <=> /\ SumSeq(calls[c].updates.results) = FoundSession(calls[c]).max_points
               /\ FoundSession(calls[c]).max_points > 0)

\* C17: an achievement of a threshold type evaluated in a pass is found met
\* exactly when its measurement reaches criteria_value: the count of the
\* user's completed sessions, the upserted total_xp, the upserted
\* longest_streak, the count of the user's question-log rows (a count whose
\* read failed is not met), or estimated_minutes of the session at most
\* criteria_value.
C17_ThresholdMetIffMeasurementReaches ==
  \A c \in CallIds :
    \A a \in Catalogue :
      (a.id \in calls[c].evaluated /\ a.criteria_type \in RuledTypes \ {"perfect_score"}) =>
        (a.id \in calls[c].criteriaMet
           <=> (a.id \notin calls[c].countError /\ CriteriaHolds(calls[c], a)))

C17_Witness ==
  \E c \in CallIds :
    /\ PassDone(calls[c])
    /\ achievements[3].criteria_type = "longest_streak"
    /\ user_stats[1].longest_streak = achievements[3].criteria_value
    /\ 3 \in calls[c].criteriaMet
    /\ 2 \in calls[c].evaluated \ calls[c].criteriaMet
    /\ 4 \in calls[c].countError
    /\ quiz_question_logs >= achievements[4].criteria_value

\* C18: an achievement whose criteria_type has no evaluation rule is never
\* found met, never inserted, is not where a pass fails, and the loop goes on
\* past it to the achievements after it.
C18_UnruledTypesSkipped ==
  \A c \in CallIds :
    \A k \in DOMAIN achievements :
      achievements[k].criteria_type \notin RuledTypes =>
        /\ achievements[k].id \notin calls[c].criteriaMet
        /\ achievements[k].id \notin calls[c].attempted
        /\ RowsOf(achievements[k].id) = {}
        /\ calls[c].i # k
        /\ PassStarted(calls[c]) => achievements[k].id \in calls[c].evaluated

C18_Witness ==
  \E c \in CallIds :
    /\ PassDone(calls[c])
    /\ achievements[1].criteria_type = "accuracy_book_ruth"
    /\ achievements[2].criteria_type = "weekly_goal"
    /\ {1, 2} \subseteq calls[c].evaluated
    /\ {3, 4} \subseteq calls[c].inserted

\* C19: a completion event of a session without assignment_id reads no
\* assignment, has bonus 0 and goes on to the stats step; and when the user
\* had no user_stats row the upsert leaves one row whose total_xp,
\* current_level and longest_streak are the values recomputed from the
\* history, as for a user who had a row.
C19_AbsentDataIsDefault ==
  \A c \in CallIds :
    /\ (Completing(calls[c]) /\ FoundSession(calls[c]).assignment_id = NoAssignment) =>
         /\ calls[c].bonusXp = 0
         /\ "study_assignments.select" \notin calls[c].ops
         /\ calls[c].pc = "statsRead" \/ "user_stats.select" \in calls[c].ops
    /\ (calls[c].upserted /\ calls[c].currentUserStats = <<>>) =>
         /\ Len(user_stats) = 1
         /\ user_stats[1].total_xp = SumTotals(MyCompleted) + calls[c].bonusXp
         /\ user_stats[1].current_level = calculateLevel(user_stats[1].total_xp)
         /\ user_stats[1].longest_streak = calculateLongestStudyStreak(MyCompleted)

C19_Witness ==
  \E c \in CallIds :
    /\ calls[c].upserted
    /\ calls[c].currentUserStats = <<>>
    /\ FoundSession(calls[c]).assignment_id = NoAssignment
    /\ user_stats[1].total_xp > 0

\* C20: whatever user_stats row was there before the event, the upserted
\* total_xp is the sum over the completed history plus the bonus of the
\* event, current_level is the level of that total and longest_streak is the
\* longest streak of the history, also when the stored values were larger.
C20_UpsertIgnoresStoredRow ==
  \A c \in CallIds :
    calls[c].upserted =>
      LET xp == SumTotals(MyCompleted) + calls[c].bonusXp IN
      user_stats = <<[total_xp |-> xp, current_level |-> calculateLevel(xp),
                      longest_streak |-> calculateLongestStudyStreak(MyCompleted),
                      last_quiz_date |-> today]>>

C20_Witness ==
  \E c \in CallIds :
    /\ calls[c].upserted
    /\ calls[c].currentUserStats = <<StoredStats>>
    /\ user_stats[1].total_xp < StoredStats.total_xp
    /\ user_stats[1].current_level < StoredStats.current_level
    /\ user_stats[1].longest_streak < StoredStats.longest_streak
    /\ Cardinality(MyCompleted) = 2

\* C13: when the insert of a pass is rejected because another pass has
\* inserted the same achievement, the rejection is not an error of the pass:
\* the table holds one row for the achievement and the pass goes on to the
\* end of the catalogue.
C13_RejectedInsertIsNoOp ==
  \A c \in DOMAIN calls :
    (calls[c].pc = "resolved" /\ calls[c].rejected # {}) =>
      /\ \A id \in calls[c].rejected : Cardinality(RowsOf(id)) = 1
      /\ ~calls[c].gamFailed
      /\ PassDone(calls[c])

\* C14: when the event that runs alone after the overlapping ones earns no
\* bonus and has upserted, total_xp is the sum of total_points over the
\* user's completed sessions and longest_streak is the longest streak of
\* those sessions.
C14_NextEventAloneCorrects ==
  \A c \in DOMAIN calls :
    (RanAlone(calls[c]) /\ calls[c].upserted /\ calls[c].bonusXp = 0) =>
      /\ user_stats[1].total_xp = SumTotals(MyCompleted)
      /\ user_stats[1].longest_streak = calculateLongestStudyStreak(MyCompleted)

C14_Witness ==
  \E c \in DOMAIN calls :
    /\ RanAlone(calls[c])
    /\ calls[c].upserted
    /\ calls[c].bonusXp = 0
    /\ calls[c].priorStatus = "completed"
    /\ calls[c].updates.completed_at = FoundSession(calls[c]).completed_at
    /\ calls[c].currentUserStats # <<>>
    /\ calls[c].currentUserStats[1].total_xp < SumTotals(MyCompleted)
    /\ calls[c].currentUserStats[1].longest_streak
         < calculateLongestStudyStreak(MyCompleted)

\* ----------------------------------------------------------- C21 .. C30
\* C21: in a completion event the history is read only after the write that
\* completed the session, and the session is part of the rows the XP sum and
\* the streak are computed from; an insert into user_achievements is made
\* only after the user_stats upsert; and the achievements are evaluated
\* against the total_xp and longest_streak that user_stats then holds.
C21_StepsOrdered ==
  \A c \in CallIds :
    LET cs == calls[c] IN
    /\ "quiz_sessions.select.total_points" \in cs.ops =>
         /\ "quiz_sessions.update" \in cs.ops
         /\ StoredRow(cs.sessionId).status = "completed"
    /\ "quiz_sessions.select.completed_at" \in cs.ops =>
         cs.sessionId \in {r.id : r \in cs.allCompletedSessions}
    /\ cs.upserted =>
         /\ cs.newTotalXp = SumTotals(MyCompleted) + cs.bonusXp
         /\ cs.newLongestStreak = calculateLongestStudyStreak(MyCompleted)
         /\ cs.sessionId \in {r.id : r \in MyCompleted}
    /\ (cs.attempted # {} \/ cs.evaluated # {} \/ cs.pc \in {"count", "insert"}) =>
         /\ cs.upserted
         /\ user_stats[1].total_xp = cs.newTotalXp
         /\ user_stats[1].longest_streak = cs.newLongestStreak
    /\ \A a \in Catalogue :
         (a.id \in cs.evaluated /\ a.criteria_type = "total_points_earned") =>
           (a.id \in cs.criteriaMet <=> user_stats[1].total_xp >= a.criteria_value)

C21_Witness ==
  \E c \in CallIds :
    /\ PassDone(calls[c])
    /\ calls[c].currentUserStats # <<>>
    /\ calls[c].currentUserStats[1].total_xp < achievements[2].criteria_value
    /\ 2 \in calls[c].inserted
    /\ Cardinality(MyCompleted) = 2

\* C22: when a completion event has ended, the stored row of its session
\* carries bonus_xp = 10 if the event added the bonus to the upserted total
\* and no bonus_xp otherwise.
C22_BonusRecordedOnStoredSession ==
  \A c \in CallIds :
    (calls[c].pc = "resolved" /\ Completing(calls[c])) =>
      StoredRow(calls[c].sessionId).bonus_xp =
        IF calls[c].upserted /\ calls[c].bonusXp > 0
        THEN STUDY_SCHEDULE_BONUS_XP ELSE NoInt

\* C23: in every step, a stored session whose status is completed keeps the
\* status completed.
C23_CompletedIsTerminal ==
  [][\A r \in quiz_sessions :
       r.status = "completed" =>
         \A r2 \in quiz_sessions' : r2.id = r.id => r2.status = "completed"]_vars
StreakComputed(cs) == cs.pc = "upsert" \/ "user_stats.upsert" \in cs.ops
\* n >= 1 days in a row end on day e
IsRunEnding(D, e, n) == n >= 1 /\ (e - n + 1)..e \subseteq D /\ (e - n) \notin D
\* some n days in a row are all in D
HasRun(D, n) == \E d \in D : d..(d + n - 1) \subseteq D

\* C25: the current streak computed by a completion event is the length of
\* the run of active days that ends today, or that ends yesterday when today
\* is not active, and 0 when neither day is active (so 0 for no dates);
\* the day of several completions counts once.
C25_CurrentStreak ==
  \A c \in CallIds :
    StreakComputed(calls[c]) =>
      LET D == ActiveDays(MyCompleted)
          n == calls[c].currentStudyStreak IN
      /\ today \in D => IsRunEnding(D, today, n)
      /\ (today \notin D /\ today - 1 \in D) => IsRunEnding(D, today - 1, n)
      /\ (today \notin D /\ today - 1 \notin D) => n = 0
      /\ n <= Cardinality(D)

C25_Witness ==
  \E c \in CallIds :
    /\ StreakComputed(calls[c])
    /\ today \notin ActiveDays(MyCompleted)
    /\ calls[c].currentStudyStreak = 2
    /\ Cardinality(MyCompleted) > Cardinality(ActiveDays(MyCompleted))

\* C26: the longest streak computed by a completion event is the largest
\* number of days in a row that are all active, 0 when no completion carries
\* a date, whatever the order and the repetitions of the dates, and it is
\* the longest_streak the event writes to user_stats.
C26_LongestStreak ==
  \A c \in CallIds :
    LET D == ActiveDays(MyCompleted)
        n == calls[c].newLongestStreak IN
    /\ StreakComputed(calls[c]) =>
         /\ D = {} <=> n = 0
         /\ n > 0 => HasRun(D, n)
         /\ ~HasRun(D, n + 1)
    /\ calls[c].upserted => user_stats[1].longest_streak = n

C26_Witness ==
  \E c \in CallIds :
    /\ calls[c].upserted
    /\ calls[c].currentUserStats # <<>>
    /\ user_stats[1].longest_streak = 2
    /\ calls[c].currentUserStats[1].longest_streak > 2
    /\ Cardinality(ActiveDays(MyCompleted)) = 3

\* C27: the longest streak computed by a completion event is never smaller
\* than the current streak it computed from the same dates.
C27_LongestAtLeastCurrent ==
  \A c \in CallIds :
    StreakComputed(calls[c]) =>
      calls[c].newLongestStreak >= calls[c].currentStudyStreak

C27_Witness ==
  \E c \in CallIds :
    /\ StreakComputed(calls[c])
    /\ calls[c].currentStudyStreak >= 1
    /\ calls[c].newLongestStreak > calls[c].currentStudyStreak
    /\ Cardinality(MyCompleted) > Cardinality(ActiveDays(MyCompleted))

\* C30: timeLeft of the timer is never negative, and the value last passed
\* to onTimeUpdate is the timeLeft the tick left, which is not negative.
C30_TimeLeftAndUpdatesNonNegative ==
  /\ [](timer.timeLeft >= 0)
  /\ [](timer.onTimeUpdate # <<>> => timer.onTimeUpdate[1] >= 0)
  /\ [][timer'.onTimeUpdate # timer.onTimeUpdate =>
          timer'.onTimeUpdate = <<timer'.timeLeft>>]_vars

\* the hook's data is the response of a request that succeeded
Fetched ==
  /\ leaderboard.dataFor # <<>>
  /\ leaderboard.dataFor[1].ok
  /\ leaderboard.dataFor[1].request.teamId # NoTeam
\* the completed sessions of a user with a completion day from from to to
CompletedBetween(user, from, to) ==
  {r \in CompletedSessionsOf(quiz_sessions, user) :
     r.completed_at # NoInt /\ from <= r.completed_at /\ r.completed_at <= to}
\* the number of active days in a row that end at the most recent one
StreakEndingAtLatest(D) == IF D = {} THEN 0 ELSE RunEndingAt(D, MaxOf(D))

\* C28: in fetched leaderboard data, the studyStreak of every member is the
\* number of consecutive days with a completed session that end at the
\* member's most recent active day of the window, 0 without activity.
C28_SqlStreakIsConsecutiveDays ==
  Fetched =>
    \A member \in leaderboard.data :
      member.studyStreak =
        StreakEndingAtLatest(ActiveDays(
          CompletedBetween(member.userId, today - DefaultWindowDays, today)))

\* C29: in fetched leaderboard data, the totals of every member of the team
\* are those of the sessions completed from the startDate to the endDate the
\* hook was given (the default window where a date is absent).
C29_LeaderboardCoversDateRange ==
  Fetched =>
    LET request == leaderboard.dataFor[1].request
        from == IF request.startDate = NoInt THEN today - DefaultWindowDays
                ELSE request.startDate
        to == IF request.endDate = NoInt THEN today ELSE request.endDate
    IN  /\ {member.userId : member \in leaderboard.data} = team_members(request.teamId)
        /\ \A member \in leaderboard.data :
             LET inRange == CompletedBetween(member.userId, from, to) IN
             /\ member.totalQuizzesCompleted = Cardinality(inRange)
             /\ member.totalPointsEarned = SumTotals(inRange)

\* C31: a tick that leaves timeLeft at 0 leaves the timer inactive and
\* expired and calls onTimeExpired, and onTimeExpired is called at most once
\* after a resetTimer (or the mount) and before the next resetTimer.
C31_ExpiresOnce ==
  /\ [][(Tick /\ timer'.timeLeft = 0) =>
          /\ ~timer'.timerActive
          /\ timer'.hasTimeExpired
          /\ timer'.onTimeExpired > timer.onTimeExpired
               \/ timer.onTimeExpired = MaxExpired]_vars
  /\ [](timer.onTimeExpired <= 1)

\* C32: in a run started by startTimer with timeLeft = n > 0 and not
\* stopped, reset or deactivated afterwards, timeLeft is n less the number
\* of ticks, the timer stays active and onTimeExpired is not called before
\* the n-th tick, and with ticks firing fairly the run reaches the n-th
\* tick with hasTimeExpired true, timerActive false and timeLeft 0; no tick
\* is counted in a step from a state where timerActive is false.
C32_TimerRunExpires ==
  /\ [](timer.startedWith > 0 =>
          /\ timer.timeLeft = IF timer.ticks < timer.startedWith
                               THEN timer.startedWith - timer.ticks ELSE 0
          /\ timer.ticks < timer.startedWith =>
               timer.timerActive /\ timer.onTimeExpired = 0)
  /\ \A n \in 1..MaxTime :
       (timer.startedWith = n /\ timer.ticks = 0) ~>
         /\ timer.ticks = n
         /\ timer.hasTimeExpired
         /\ ~timer.timerActive
         /\ timer.timeLeft = 0
         /\ timer.onTimeExpired = 1
  /\ [][~timer.timerActive =>
          /\ timer'.ticks = timer.ticks \/ timer'.ticks = 0
          /\ timer'.onTimeUpdate = timer.onTimeUpdate]_vars

C32_Witness ==
  /\ timer.startedWith = MaxTime
  /\ timer.ticks = MaxTime
  /\ timer.hasTimeExpired
  /\ ~timer.timerActive
  /\ timer.timeLeft = 0

\* the hook shows the outcome of the fetch issued last once nothing is in
\* flight, and is not loading only then
LastRequestWins(hook) ==
  /\ (hook.requests = {} /\ hook.latest # <<>>) =>
       /\ hook.data = hook.latest[1].fetched
       /\ hook.error = NoError <=> hook.latest[1].ok
  /\ ~hook.loading => hook.requests = {}

\* C33: for both data hooks, once every request has completed, data and
\* error are those of the request issued last, in whatever order the
\* responses arrived, and loading is false only when no request is in flight.
C33_LastRequestWins == LastRequestWins(leaderboard) /\ LastRequestWins(history)

\* a step in which a fetch of the hook ends leaves the state the claim
\* describes for a fetch without id, a failed one and a successful one
EndsConsistently(before, after, noId) ==
  after.dataFor # before.dataFor =>
    /\ ~after.loading
    /\ IF noId THEN after.data = {} /\ after.error = NoError
       ELSE IF ~after.dataFor[1].ok THEN after.data = {} /\ after.error # NoError
       ELSE after.data = after.dataFor[1].fetched /\ after.error = NoError

\* C34: every fetch of a data hook that ends leaves data = [], loading =
\* false and error = null when there was no id, data = [], loading = false
\* and an error when the request failed, and the fetched data, loading =
\* false and error = null when it succeeded.
C34_FetchEndsConsistently ==
  [][/\ EndsConsistently(leaderboard, leaderboard',
                          leaderboard'.dataFor[1].request.teamId = NoTeam)
     /\ EndsConsistently(history, history',
                          history'.dataFor[1].request.userId = NoUser)]_vars

====
